---- MODULE Spec2Model ----
(***************************************************************************)
(* The SalesAnalyzer component (the 840-line component, src/unnamed/       *)
(* part_000) and the earlier App component (src/src/App.tsx) as state      *)
(* machines: React state as variables, one action per handler or decoder   *)
(* callback, the aggregation helpers as operators.                         *)
(*                                                                         *)
(* Strings are TLA+ strings, read character by character with SubSeq.      *)
(* Money is counted in cents (exact decimal arithmetic; the rounding of    *)
(* IEEE doubles is not modelled).  An instant (Date.getTime()) is counted  *)
(* in hours since the epoch.  A missing column and an empty cell are both  *)
(* the empty string: the code reads every field through `||` or `if`, for  *)
(* which the two are the same.                                             *)
(***************************************************************************)
EXTENDS Integers, Sequences, FiniteSets, TLC

VARIABLES
  component,        \* which of the two components is mounted
  tz,               \* the browser's time zone, hours east of UTC
  pool,             \* the name of the universe the uploaded files are drawn from
  budget,           \* how many more uploads the run may start
  language,         \* useState<Language>
  salesData,        \* useState<SalesData | null>
  error,            \* useState<string>
  selectedMonth,    \* useState<string | 'ALL'>
  availableMonths,  \* useState<string[]>
  pending,          \* decodes in flight, each with the render it closed over
  lastCall,         \* the calculateTotals call that set the result on display
  appSalesData,     \* App.tsx: useState<SalesData | null>
  appError,         \* App.tsx: useState<string>
  appPending,       \* App.tsx: decodes in flight
  engineSort,       \* what Array.prototype.sort returned where the order is the engine's choice
  probe,            \* the argument handed to a helper called on its own
  answer            \* what that call returned

vars == <<component, tz, pool, budget, language, salesData, error, selectedMonth,
          availableMonths, pending, lastCall, appSalesData, appError,
          appPending, engineSort, probe, answer>>

----------------------------------------------------------------------------
(* Strings *)

Ch(s, i) == SubSeq(s, i, i)

Rest(s) == SubSeq(s, 2, Len(s))

Digits == "0123456789"

UpperAlpha == "ABCDEFGHIJKLMNOPQRSTUVWXYZ"

LowerAlpha == "abcdefghijklmnopqrstuvwxyz"

IsDigit(c) == \E i \in 1..10 : Ch(Digits, i) = c

DigitVal(c) == (CHOOSE i \in 1..10 : Ch(Digits, i) = c) - 1

IsSpace(c) == c = " "

LowerChar(c) ==
  IF \E i \in 1..26 : Ch(UpperAlpha, i) = c
  THEN Ch(LowerAlpha, CHOOSE i \in 1..26 : Ch(UpperAlpha, i) = c)
  ELSE c

RECURSIVE toLowerCase(_)
toLowerCase(s) ==
  IF s = "" THEN "" ELSE LowerChar(Ch(s, 1)) \o toLowerCase(Rest(s))

RECURSIVE TrimStart(_)
TrimStart(s) ==
  IF s # "" /\ IsSpace(Ch(s, 1)) THEN TrimStart(Rest(s)) ELSE s

RECURSIVE TrimEnd(_)
TrimEnd(s) ==
  IF s # "" /\ IsSpace(Ch(s, Len(s)))
  THEN TrimEnd(SubSeq(s, 1, Len(s) - 1))
  ELSE s

trim(s) == TrimEnd(TrimStart(s))

\* String.prototype.replace(c, '') with a string pattern: the first
\* occurrence only.
RECURSIVE replaceFirst(_, _)
replaceFirst(s, c) ==
  IF s = "" THEN ""
  ELSE IF Ch(s, 1) = c THEN Rest(s)
  ELSE Ch(s, 1) \o replaceFirst(Rest(s), c)

\* String.prototype.split(c): the pieces between the occurrences of c.
RECURSIVE SplitFrom(_, _, _)
SplitFrom(s, c, cur) ==
  IF s = "" THEN <<cur>>
  ELSE IF Ch(s, 1) = c THEN <<cur>> \o SplitFrom(Rest(s), c, "")
  ELSE SplitFrom(Rest(s), c, cur \o Ch(s, 1))

split(s, c) == SplitFrom(s, c, "")

\* The longest prefix of s made of digits.
RECURSIVE DigitPrefix(_)
DigitPrefix(s) ==
  IF s # "" /\ IsDigit(Ch(s, 1)) THEN Ch(s, 1) \o DigitPrefix(Rest(s)) ELSE ""

RECURSIVE DigitsValue(_, _)
DigitsValue(s, acc) ==
  IF s = "" THEN acc ELSE DigitsValue(Rest(s), acc * 10 + DigitVal(Ch(s, 1)))

AllDigits(s) == s # "" /\ DigitPrefix(s) = s

\* A JavaScript number: NaN, or a value.
NaN == [nan |-> TRUE, v |-> 0]

Num(n) == [nan |-> FALSE, v |-> n]

Sign(s) == IF s # "" /\ Ch(s, 1) = "-" THEN -1 ELSE 1

Unsigned(s) == IF s # "" /\ Ch(s, 1) \in {"-", "+"} THEN Rest(s) ELSE s

\* parseInt(s, 10): leading white space, a sign, then the digits that follow;
\* NaN when there is none.
parseInt(s) ==
  LET u == Unsigned(TrimStart(s))
      d == DigitPrefix(u)
  IN  IF d = "" THEN NaN ELSE Num(Sign(TrimStart(s)) * DigitsValue(d, 0))

\* parseFloat(s), in cents: leading white space, a sign, the digits, and a
\* '.' with the digits after it; whatever follows is ignored; NaN when no
\* digit is found.  The fields of the model carry no exponent and at most two
\* decimals.
parseFloat(s) ==
  LET u    == Unsigned(TrimStart(s))
      ip   == DigitPrefix(u)
      r    == SubSeq(u, Len(ip) + 1, Len(u))
      fp   == IF r # "" /\ Ch(r, 1) = "." THEN DigitPrefix(Rest(r)) ELSE ""
      f2   == SubSeq(fp \o "00", 1, 2)
  IN  IF ip = "" /\ fp = "" THEN NaN
      ELSE Num(Sign(TrimStart(s)) * (DigitsValue(ip, 0) * 100 + DigitsValue(f2, 0)))

----------------------------------------------------------------------------
(* Dates: new Date(string), getTime(), getMonth() *)

\* Days from 1970-01-01 to the civil date y-m-d; a day beyond the month's end
\* runs on into the next month, as MakeDay does.
DaysFromCivil(y, m, d) ==
  LET yy  == IF m <= 2 THEN y - 1 ELSE y
      era == yy \div 400
      yoe == yy - era * 400
      mp  == IF m > 2 THEN m - 3 ELSE m + 9
      doy == (153 * mp + 2) \div 5 + d - 1
      doe == yoe * 365 + yoe \div 4 - yoe \div 100 + doy
  IN  era * 146097 + doe - 719468

\* The month (1..12) of the civil date that lies z days after 1970-01-01.
MonthFromDays(z) ==
  LET zz  == z + 719468
      era == zz \div 146097
      doe == zz - era * 146097
      yoe == (doe - doe \div 1460 + doe \div 36524 - doe \div 146096) \div 365
      doy == doe - (365 * yoe + yoe \div 4 - yoe \div 100)
      mp  == (5 * doy + 2) \div 153
  IN  IF mp < 10 THEN mp + 3 ELSE mp - 9

FullYear(y) == IF y < 50 THEN 2000 + y ELSE IF y < 100 THEN 1900 + y ELSE y

\* new Date(s).getTime(), in hours, in the time zone `zone`: the slash forms
\* M/D/Y and Y/M/D are local time, the ISO form YYYY-MM-DD is UTC, anything
\* else in the model's alphabet is an Invalid Date (NaN).
DateTime(s, zone) ==
  LET sl == split(s, "/")
      da == split(s, "-")
      n(x) == DigitsValue(x, 0)
      slash  == Len(sl) = 3 /\ \A i \in 1..3 : AllDigits(sl[i])
      yfirst == slash /\ Len(sl[1]) >= 3
      y  == IF yfirst THEN n(sl[1]) ELSE FullYear(n(sl[3]))
      m  == IF yfirst THEN n(sl[2]) ELSE n(sl[1])
      d  == IF yfirst THEN n(sl[3]) ELSE n(sl[2])
      iso == /\ Len(da) = 3
             /\ \A i \in 1..3 : AllDigits(da[i])
             /\ Len(da[1]) = 4 /\ Len(da[2]) = 2 /\ Len(da[3]) = 2
  IN  IF slash
      THEN IF m \in 1..12 /\ d \in 1..31
           THEN Num(24 * DaysFromCivil(y, m, d) - zone)
           ELSE NaN
      ELSE IF iso
      THEN IF n(da[2]) \in 1..12 /\ n(da[3]) \in 1..31
           THEN Num(24 * DaysFromCivil(n(da[1]), n(da[2]), n(da[3])))
           ELSE NaN
      ELSE NaN

\* Date.prototype.getMonth() of the instant t (hours), 0..11, local time.
getMonth(t, zone) == MonthFromDays((t + zone) \div 24) - 1

----------------------------------------------------------------------------
(* Array.prototype.sort with a comparator that may return NaN *)

\* a - b in JavaScript.
Minus(a, b) == IF a.nan \/ b.nan THEN NaN ELSE Num(a.v - b.v)

\* What sort makes of the comparator's result: NaN counts as +0.
Before(a, b) == ~Minus(a.k, b.k).nan /\ Minus(a.k, b.k).v < 0

Same(a, b) == ~Before(a, b) /\ ~Before(b, a)

\* ECMAScript's "consistent comparator" over the elements being sorted.
Consistent(items) ==
  LET S == {items[i] : i \in 1..Len(items)}
  IN  \A a, b, c \in S :
        /\ (Same(a, b) /\ Same(b, c)) => Same(a, c)
        /\ (Before(a, b) /\ Before(b, c)) => Before(a, c)
        /\ (Same(a, b) /\ Before(b, c)) => Before(a, c)
        /\ (Before(a, b) /\ Same(b, c)) => Before(a, c)

RECURSIVE InsertStable(_, _)
InsertStable(sorted, x) ==
  IF sorted = <<>> THEN <<x>>
  ELSE IF Before(x, sorted[Len(sorted)])
  THEN InsertStable(SubSeq(sorted, 1, Len(sorted) - 1), x) \o <<sorted[Len(sorted)]>>
  ELSE sorted \o <<x>>

RECURSIVE StableSort(_)
StableSort(items) ==
  IF items = <<>> THEN <<>>
  ELSE InsertStable(StableSort(SubSeq(items, 1, Len(items) - 1)), items[Len(items)])

Rearrangements(items) ==
  LET n == Len(items)
  IN  { [i \in 1..n |-> items[f[i]]] :
          f \in {g \in [1..n -> 1..n] : \A i, j \in 1..n : g[i] = g[j] => i = j} }

\* The orders sort may leave items in, each item [x, k] compared by its key
\* k: the stable ascending order when the comparator is consistent, and an
\* implementation-defined order (any) when it is not.
SortOutcomes(items) ==
  IF Consistent(items) THEN {StableSort(items)} ELSE Rearrangements(items)

----------------------------------------------------------------------------
(* SalesAnalyzer: the helpers.  A helper that reads `language` in the code  *)
(* takes the language of the render it belongs to as `lang`.               *)

Languages == {"en", "es"}

monthNames(lang) ==
  IF lang = "es"
  THEN <<"Enero", "Febrero", "Marzo", "Abril", "Mayo", "Junio", "Julio",
         "Agosto", "Septiembre", "Octubre", "Noviembre", "Diciembre">>
  ELSE <<"January", "February", "March", "April", "May", "June", "July",
         "August", "September", "October", "November", "December">>

\* getMonthFromDate taking every label from new Date(dateString).
getMonthFromDateParsed(dateString, lang, zone) ==
  LET date == DateTime(dateString, zone)
  IN  IF dateString = "" THEN ""
      ELSE IF date.nan THEN ""
      ELSE monthNames(lang)[getMonth(date.v, zone) + 1]

getMonthFromDate(dateString, lang, zone) ==
  LET dateParts == split(dateString, "/")
      date      == DateTime(dateString, zone)
      monthIndex == Minus(parseInt(dateParts[1]), Num(1))
  IN  IF dateString = "" THEN ""
      ELSE IF Len(dateParts) < 3
      THEN IF date.nan THEN "" ELSE monthNames(lang)[getMonth(date.v, zone) + 1]
      ELSE IF monthIndex.nan \/ monthIndex.v < 0 \/ monthIndex.v > 11 THEN ""
      ELSE monthNames(lang)[monthIndex.v + 1]

\* The month labels of dailyData in first-seen order, each once (the Set).
\* monthSet as a list: every bucket's label, a label as often as it occurs.
RECURSIVE monthList(_, _, _)
monthList(dailyData, lang, zone) ==
  IF dailyData = <<>> THEN <<>>
  ELSE LET init  == monthList(SubSeq(dailyData, 1, Len(dailyData) - 1), lang, zone)
           month == getMonthFromDate(dailyData[Len(dailyData)].date, lang, zone)
       IN  IF month # "" THEN init \o <<month>> ELSE init

RECURSIVE monthSet(_, _, _)
monthSet(dailyData, lang, zone) ==
  IF dailyData = <<>> THEN <<>>
  ELSE LET init  == monthSet(SubSeq(dailyData, 1, Len(dailyData) - 1), lang, zone)
           month == getMonthFromDate(dailyData[Len(dailyData)].date, lang, zone)
       IN  IF month # "" /\ \A i \in 1..Len(init) : init[i] # month
           THEN init \o <<month>>
           ELSE init

\* Math.max(...times): NaN as soon as one of them is.
MathMax(times) ==
  IF \E t \in times : t.nan THEN NaN
  ELSE Num(CHOOSE m \in {t.v : t \in times} : \A t \in times : t.v <= m)

\* The latest getTime() among the days of dailyData whose label is `month`.
latestOf(dailyData, month, lang, zone) ==
  MathMax({DateTime(dailyData[i].date, zone) :
             i \in {j \in 1..Len(dailyData) :
                      getMonthFromDate(dailyData[j].date, lang, zone) = month}})

Neg(a) == IF a.nan THEN NaN ELSE Num(-a.v)

\* The orders getAllUniqueMonths may return: the comparator is
\* latestB - latestA.
getAllUniqueMonths(dailyData, lang, zone) ==
  LET months == monthSet(dailyData, lang, zone)
      items  == [i \in 1..Len(months) |->
                   [x |-> months[i],
                    k |-> Neg(latestOf(dailyData, months[i], lang, zone))]]
  IN  IF Len(dailyData) = 0 THEN {<<>>}
      ELSE {[i \in 1..Len(o) |-> o[i].x] : o \in SortOutcomes(items)}

RECURSIVE SelectSeq2(_, _, _, _)
SelectSeq2(dailyData, month, lang, zone) ==
  IF dailyData = <<>> THEN <<>>
  ELSE (IF getMonthFromDate(Head(dailyData).date, lang, zone) = month
        THEN <<Head(dailyData)>> ELSE <<>>)
       \o SelectSeq2(Tail(dailyData), month, lang, zone)

\* getFilteredDailyData without the early return for 'ALL'.
getFilteredDailyDataNoAll(dailyData, month, lang, zone) ==
  SelectSeq2(dailyData, month, lang, zone)

getFilteredDailyData(dailyData, month, lang, zone) ==
  IF month = "ALL" THEN dailyData
  ELSE SelectSeq2(dailyData, month, lang, zone)

RECURSIVE reduceRetail(_)
reduceRetail(days) ==
  IF days = <<>> THEN 0
  ELSE reduceRetail(SubSeq(days, 1, Len(days) - 1)) + days[Len(days)].retail

RECURSIVE reduceClub(_)
reduceClub(days) ==
  IF days = <<>> THEN 0
  ELSE reduceClub(SubSeq(days, 1, Len(days) - 1)) + days[Len(days)].club

getFilteredTotals(dailyData, month, lang, zone) ==
  LET filtered == getFilteredDailyData(dailyData, month, lang, zone)
  IN  [retailTotal |-> reduceRetail(filtered), clubTotal |-> reduceClub(filtered)]

----------------------------------------------------------------------------
(* SalesAnalyzer.calculateTotals *)

\* a || b on strings.
Or(a, b) == IF a # "" THEN a ELSE b

\* A decoded row: the eight columns the code reads, "" where the row has no
\* such column.
Columns == {"ReceiptType", "TipoDeRecibo", "Profit", "Ganancia", "DateCreated",
            "FechaDeCreacion", "CustomerName", "NombreDelCliente"}

receiptTypeOf(row) == Or(row.ReceiptType, row.TipoDeRecibo)

profitStringOf(row) == Or(row.Profit, row.Ganancia)

dateCreatedOf(row) == Or(row.DateCreated, row.FechaDeCreacion)

customerNameOf(row) == Or(row.CustomerName, row.NombreDelCliente)

\* IsExcluded comparing the name as it stands in the cell.
IsExcludedExact(customerName) == customerName = "Ashley Regis"

IsExcluded(customerName) ==
  customerName # "" /\ toLowerCase(trim(customerName)) = "ashley regis"

parseProfit(profitString) ==
  parseFloat(replaceFirst(replaceFirst(profitString, "$"), ","))

\* IsRetail comparing without regard to case or surrounding white space.
IsRetailLoose(typeString) ==
  toLowerCase(trim(typeString)) \in {"retail sale", "venta al menudeo"}

IsRetail(typeString) ==
  typeString = "Retail Sale" \/ typeString = "Venta al menudeo"

IsClub(typeString) ==
  typeString = "Club Visit/Sale" \/ typeString = "Visita al Club / Venta"

\* dailyMap: a Map keeps its keys in insertion order; a sequence of
\* [date, retail, club].
MapHas(dailyMap, dateKey) == \E i \in 1..Len(dailyMap) : dailyMap[i].date = dateKey

MapSetNew(dailyMap, dateKey) ==
  IF MapHas(dailyMap, dateKey) THEN dailyMap
  ELSE dailyMap \o <<[date |-> dateKey, retail |-> 0, club |-> 0]>>

\* MapAdd with `=` in place of `+=`: the bucket keeps the last amount only.
MapAddLast(dailyMap, dateKey, typeString, profit) ==
  [i \in 1..Len(dailyMap) |->
     IF dailyMap[i].date # dateKey THEN dailyMap[i]
     ELSE IF IsRetail(typeString)
     THEN [dailyMap[i] EXCEPT !.retail = profit]
     ELSE IF IsClub(typeString)
     THEN [dailyMap[i] EXCEPT !.club = profit]
     ELSE dailyMap[i]]

MapAdd(dailyMap, dateKey, typeString, profit) ==
  [i \in 1..Len(dailyMap) |->
     IF dailyMap[i].date # dateKey THEN dailyMap[i]
     ELSE IF IsRetail(typeString)
     THEN [dailyMap[i] EXCEPT !.retail = @ + profit]
     ELSE IF IsClub(typeString)
     THEN [dailyMap[i] EXCEPT !.club = @ + profit]
     ELSE dailyMap[i]]

\* forEachBody with the date's bucket looked up inside the two kind branches:
\* a row of another type creates none.
forEachBodyKindFirst(acc, row) ==
  LET receiptType  == receiptTypeOf(row)
      profitString == profitStringOf(row)
      dateCreated  == dateCreatedOf(row)
      customerName == customerNameOf(row)
      profit       == parseProfit(profitString)
  IN  IF IsExcluded(customerName) THEN acc
      ELSE IF receiptType = "" \/ profitString = "" THEN acc
      ELSE IF profit.nan THEN acc
      ELSE [retailTotal |-> IF IsRetail(receiptType)
                            THEN acc.retailTotal + profit.v ELSE acc.retailTotal,
            clubTotal   |-> IF ~IsRetail(receiptType) /\ IsClub(receiptType)
                            THEN acc.clubTotal + profit.v ELSE acc.clubTotal,
            dailyMap    |-> IF dateCreated = "" \/ ~(IsRetail(receiptType) \/ IsClub(receiptType))
                            THEN acc.dailyMap
                            ELSE MapAdd(MapSetNew(acc.dailyMap, dateCreated),
                                        dateCreated, receiptType, profit.v)]

\* forEachBody with the running totals fed inside `if (dateCreated)`: an
\* undated row adds to nothing.
forEachBodyDatedOnly(acc, row) ==
  LET receiptType  == receiptTypeOf(row)
      profitString == profitStringOf(row)
      dateCreated  == dateCreatedOf(row)
      customerName == customerNameOf(row)
      profit       == parseProfit(profitString)
  IN  IF IsExcluded(customerName) THEN acc
      ELSE IF receiptType = "" \/ profitString = "" THEN acc
      ELSE IF profit.nan THEN acc
      ELSE IF dateCreated = "" THEN acc
      ELSE [retailTotal |-> IF IsRetail(receiptType)
                            THEN acc.retailTotal + profit.v ELSE acc.retailTotal,
            clubTotal   |-> IF ~IsRetail(receiptType) /\ IsClub(receiptType)
                            THEN acc.clubTotal + profit.v ELSE acc.clubTotal,
            dailyMap    |-> MapAdd(MapSetNew(acc.dailyMap, dateCreated),
                                   dateCreated, receiptType, profit.v)]

\* A date string without the leading zeros of its '/'-separated fields.
RECURSIVE Unpadded(_)
Unpadded(s) ==
  IF Len(s) >= 2 /\ Ch(s, 1) = "0" /\ IsDigit(Ch(s, 2)) THEN Unpadded(Rest(s))
  ELSE IF s = "" THEN ""
  ELSE LET d == DigitPrefix(s)
       IN  IF d = "" THEN Ch(s, 1) \o Unpadded(Rest(s))
           ELSE d \o (IF Len(d) = Len(s) THEN ""
                      ELSE Ch(s, Len(d) + 1) \o Unpadded(SubSeq(s, Len(d) + 2, Len(s))))

\* forEachBody with the bucket keyed by the day, not by the string as it
\* stands.
forEachBodyByDay(acc, row) ==
  LET receiptType  == receiptTypeOf(row)
      profitString == profitStringOf(row)
      dateCreated  == Unpadded(dateCreatedOf(row))
      customerName == customerNameOf(row)
      profit       == parseProfit(profitString)
  IN  IF IsExcluded(customerName) THEN acc
      ELSE IF receiptType = "" \/ profitString = "" THEN acc
      ELSE IF profit.nan THEN acc
      ELSE [retailTotal |-> IF IsRetail(receiptType)
                            THEN acc.retailTotal + profit.v ELSE acc.retailTotal,
            clubTotal   |-> IF ~IsRetail(receiptType) /\ IsClub(receiptType)
                            THEN acc.clubTotal + profit.v ELSE acc.clubTotal,
            dailyMap    |-> IF dateCreated = "" THEN acc.dailyMap
                            ELSE MapAdd(MapSetNew(acc.dailyMap, dateCreated),
                                        dateCreated, receiptType, profit.v)]

\* The body of data.forEach: acc is [retailTotal, clubTotal, dailyMap].
forEachBody(acc, row) ==
  LET receiptType  == receiptTypeOf(row)
      profitString == profitStringOf(row)
      dateCreated  == dateCreatedOf(row)
      customerName == customerNameOf(row)
      profit       == parseProfit(profitString)
  IN  IF IsExcluded(customerName) THEN acc
      ELSE IF receiptType = "" \/ profitString = "" THEN acc
      ELSE IF profit.nan THEN acc
      ELSE [retailTotal |-> IF IsRetail(receiptType)
                            THEN acc.retailTotal + profit.v ELSE acc.retailTotal,
            clubTotal   |-> IF ~IsRetail(receiptType) /\ IsClub(receiptType)
                            THEN acc.clubTotal + profit.v ELSE acc.clubTotal,
            dailyMap    |-> IF dateCreated = "" THEN acc.dailyMap
                            ELSE MapAdd(MapSetNew(acc.dailyMap, dateCreated),
                                        dateCreated, receiptType, profit.v)]

RECURSIVE forEach(_, _)
forEach(data, acc) ==
  IF data = <<>> THEN acc ELSE forEach(Tail(data), forEachBody(acc, Head(data)))

\* Array.from(dailyMap.entries()).map(...)
\* toDailyProfit with the total taken from the retail field alone.
toDailyProfitRetail(dailyMap) ==
  [i \in 1..Len(dailyMap) |->
     [date   |-> dailyMap[i].date,
      retail |-> dailyMap[i].retail,
      club   |-> dailyMap[i].club,
      total  |-> dailyMap[i].retail]]

toDailyProfit(dailyMap) ==
  [i \in 1..Len(dailyMap) |->
     [date   |-> dailyMap[i].date,
      retail |-> dailyMap[i].retail,
      club   |-> dailyMap[i].club,
      total  |-> dailyMap[i].retail + dailyMap[i].club]]

\* .sort((a, b) => new Date(a.date).getTime() - new Date(b.date).getTime())
sortByDate(days, zone) ==
  LET items == [i \in 1..Len(days) |-> [x |-> days[i], k |-> DateTime(days[i].date, zone)]]
  IN  {[i \in 1..Len(o) |-> o[i].x] : o \in SortOutcomes(items)}

\* defaultMonth that leaves 'ALL' selected when there are several months.
defaultMonthAll(months) ==
  IF Len(months) > 1 THEN "ALL"
  ELSE IF Len(months) = 1 THEN months[1]
  ELSE "ALL"

defaultMonth(months) ==
  IF Len(months) > 1 THEN months[1]
  ELSE IF Len(months) = 1 THEN months[1]
  ELSE "ALL"

\* The states calculateTotals may set: one for each order the two sorts may
\* produce.
calculateTotals(data, fileName, lang, zone) ==
  LET acc == forEach(data, [retailTotal |-> 0, clubTotal |-> 0, dailyMap |-> <<>>])
  IN  { [availableMonths |-> months,
         selectedMonth   |-> defaultMonth(months),
         salesData       |-> [retailTotal |-> acc.retailTotal,
                              clubTotal   |-> acc.clubTotal,
                              fileName    |-> fileName,
                              dailyData   |-> dailyData]] :
          <<dailyData, months>> \in
            UNION { {<<dd, mm>> : mm \in getAllUniqueMonths(dd, lang, zone)} :
                      dd \in sortByDate(toDailyProfit(acc.dailyMap), zone) } }

----------------------------------------------------------------------------
(* App.tsx: calculateTotals *)

AppForEachBody(acc, row) ==
  LET receiptType  == row.ReceiptType
      profitString == row.Profit
      profit       == parseProfit(profitString)
  IN  IF receiptType = "" \/ profitString = "" THEN acc
      ELSE IF profit.nan THEN acc
      ELSE [retailTotal |-> IF receiptType = "Retail Sale"
                            THEN acc.retailTotal + profit.v ELSE acc.retailTotal,
            clubTotal   |-> IF receiptType = "Club Visit/Sale"
                            THEN acc.clubTotal + profit.v ELSE acc.clubTotal]

RECURSIVE AppForEach(_, _)
AppForEach(data, acc) ==
  IF data = <<>> THEN acc ELSE AppForEach(Tail(data), AppForEachBody(acc, Head(data)))

AppCalculateTotals(data, fileName) ==
  LET acc == AppForEach(data, [retailTotal |-> 0, clubTotal |-> 0])
  IN  [retailTotal |-> acc.retailTotal, clubTotal |-> acc.clubTotal,
       fileName |-> fileName]

----------------------------------------------------------------------------
(* The inputs: rows, files, and the universes the initial state draws from *)

MaxRows == 3

SmallMaxRows == 2

WideUploads == 1

MaxUploads == 2

\* A row under the English headers, and under the Spanish ones.
EnRow(t, p, d, c) ==
  [ReceiptType |-> t, TipoDeRecibo |-> "", Profit |-> p, Ganancia |-> "",
   DateCreated |-> d, FechaDeCreacion |-> "", CustomerName |-> c,
   NombreDelCliente |-> ""]

EsRow(t, p, d, c) ==
  [ReceiptType |-> "", TipoDeRecibo |-> t, Profit |-> "", Ganancia |-> p,
   DateCreated |-> "", FechaDeCreacion |-> d, CustomerName |-> "",
   NombreDelCliente |-> c]

\* Receipt types: the four literals, variants of them in case and white
\* space, another type, none.
KindRows ==
  {EnRow(t, "$10.00", "01/05/2024", "") :
     t \in {"Retail Sale", "Club Visit/Sale", "Venta al menudeo", "Refund",
            "retail sale", "Retail Sale ", " Club Visit/Sale", ""}}
  \cup {EsRow(t, "$5.50", "01/05/2024", "") :
          t \in {"Venta al menudeo", "Visita al Club / Venta"}}

\* Kinds against dated and undated rows, two amounts.
DatedRows ==
  {EnRow(t, p, d, "") :
     t \in {"Retail Sale", "Club Visit/Sale", "Refund"},
     p \in {"$10.00", "$5.50"},
     d \in {"01/05/2024", ""}}

\* Profit fields: plain, with one and with two thousands separators, not a
\* number, a number followed by text, none.
ProfitRows ==
  {EnRow(t, p, "01/05/2024", "") :
     t \in {"Retail Sale", "Club Visit/Sale"},
     p \in {"$10.00", "$1,234.50", "$1,234,567.00", "N/A", "12abc", ""}}

\* Customer names around the excluded one, under both headers.
CustomerRows ==
  {EnRow("Retail Sale", "$10.00", d, c) :
     d \in {"01/05/2024", "02/01/2024"},
     c \in {"", "Ashley Regis", "  ASHLEY REGIS  ", "Ashley Regis Jr"}}
  \cup {EsRow("Visita al Club / Venta", "$5.50", "01/05/2024", c) :
          c \in {"ashley regis", "Bob"}}

\* Date strings: M/D/Y with and without leading zeros, dates whose string
\* order is not their calendar order, the same month in two years, the ISO
\* and the Y/M/D forms, a month and a day out of range, no date at all.
DateRows ==
  {EnRow("Retail Sale", "$10.00", d, "") :
     d \in {"01/05/2024", "1/5/2024", "02/01/2024", "12/31/2023",
            "01/15/2023", "2024-03-01", "2024/03/05", "13/01/2024",
            "02/32/2024", "garbage"}}

\* A few rows for the runs with several uploads.
SmallRows ==
  {EnRow("Retail Sale", "$10.00", "01/05/2024", ""),
   EnRow("Club Visit/Sale", "$5.50", "02/01/2024", ""),
   EsRow("Venta al menudeo", "$3.00", "", "")}

\* Rows for the runs that upload the same rows again: two dates and a cell
\* that is no date.
AgainRows ==
  {EnRow("Retail Sale", "$10.00", d, "") : d \in {"02/01/2024", "garbage", "01/05/2024"}}

\* The row of the files of the runs that follow every upload to its end.
UploadRows == {EnRow("Retail Sale", "$10.00", "01/05/2024", "")}

UploadMaxRows == 1

TimeZones == {-6, 0}

\* A file: its name, its MIME type, what goes wrong when it is decoded
\* ("none", "parse": the decoder rejects the bytes, "read": the FileReader
\* fails), and the rows the decoder yields.
File(name, type, fault, data) ==
  [name |-> name, type |-> type, fault |-> fault, data |-> data]

GoodCsv == [name |-> "sales.csv", type |-> "text/csv", fault |-> "none"]

Shells ==
  {GoodCsv,
   [name |-> "sales.XLSX", type |-> "", fault |-> "none"],
   [name |-> "export", type |-> "application/vnd.ms-excel", fault |-> "parse"],
   [name |-> "sales.xls", type |-> "", fault |-> "read"],
   [name |-> "sales.csv", type |-> "", fault |-> "read"],
   [name |-> "notes.txt", type |-> "text/plain", fault |-> "none"]}

Universe(rows, shells, maxRows, uploads, zones) ==
  [rows |-> rows, shells |-> shells, maxRows |-> maxRows, uploads |-> uploads,
   zones |-> zones]

\* The universes a run may take its inputs from: five with many rows and one
\* upload, one with few rows, every kind of file and several uploads.
UniverseNames == {"kinds", "dated", "profits", "customers", "dates", "small"}

UniverseOf(name) ==
  CASE name = "kinds"     -> Universe(KindRows, {GoodCsv}, MaxRows, WideUploads, {0})
    [] name = "dated"     -> Universe(DatedRows, {GoodCsv}, MaxRows, WideUploads, {0})
    [] name = "profits"   -> Universe(ProfitRows, {GoodCsv}, MaxRows, WideUploads, {0})
    [] name = "customers" -> Universe(CustomerRows, {GoodCsv}, MaxRows, WideUploads, {0})
    [] name = "dates"     -> Universe(DateRows, {GoodCsv}, MaxRows, WideUploads, TimeZones)
    [] name = "small"     -> Universe(SmallRows, Shells, SmallMaxRows, MaxUploads, {0})
    [] name = "again"     -> Universe(AgainRows, {GoodCsv}, MaxRows, MaxUploads, {0})
    [] name = "uploads"   -> Universe(UploadRows, Shells, UploadMaxRows, MaxUploads, {0})

\* The row sequences of at most u.maxRows rows of the universe u.
DataOf(u) == UNION {[1..n -> u.rows] : n \in 0..u.maxRows}

\* The files of a universe: a file that decodes carries any data, a file
\* that does not carries none.
FilesOf(u) ==
  {File(sh.name, sh.type, sh.fault, d) :
     sh \in {x \in u.shells : x.fault = "none"}, d \in DataOf(u)}
  \cup {File(sh.name, sh.type, sh.fault, <<>>) :
          sh \in {x \in u.shells : x.fault # "none"}}

----------------------------------------------------------------------------
(* SalesAnalyzer: state and handlers *)

Null == [null |-> TRUE]

translations(lang) ==
  IF lang = "es"
  THEN [errorCsv      |-> "Error al analizar archivo CSV",
        errorExcel    |-> "Error al analizar archivo Excel",
        errorFileType |-> "Por favor sube un archivo .xlsx o .csv"]
  ELSE [errorCsv      |-> "Error parsing CSV file",
        errorExcel    |-> "Error parsing Excel file",
        errorFileType |-> "Please upload a .xlsx or .csv file"]

\* file.name.split('.').pop()?.toLowerCase()
fileExtension(file) ==
  LET parts == split(file.name, ".") IN toLowerCase(parts[Len(parts)])

isCsv(file) == fileExtension(file) = "csv" \/ file.type = "text/csv"

isExcel(file) ==
  \/ fileExtension(file) = "xlsx"
  \/ fileExtension(file) = "xls"
  \/ file.type = "application/vnd.openxmlformats-officedocument.spreadsheetml.sheet"
  \/ file.type = "application/vnd.ms-excel"

\* The message of the Error the CSV decoder hands to its error callback.
ErrMessage == "NotReadableError"

RemoveAt(seq, i) == SubSeq(seq, 1, i - 1) \o SubSeq(seq, i + 1, Len(seq))

Init ==
  /\ component \in {"SalesAnalyzer", "App"}
  /\ pool \in UniverseNames
  /\ budget = UniverseOf(pool).uploads
  /\ tz \in UniverseOf(pool).zones
  /\ language \in Languages
  /\ salesData = Null
  /\ error = ""
  /\ selectedMonth = "ALL"
  /\ availableMonths = <<>>
  /\ pending = <<>>
  /\ lastCall = Null
  /\ appSalesData = Null
  /\ appError = ""
  /\ appPending = <<>>
  /\ engineSort = {}
  /\ probe = Null
  /\ answer = Null

AppVars == <<appSalesData, appError, appPending>>

Env == <<component, tz, pool, probe, answer>>

\* The number of calls of processFile so far.
Started == UniverseOf(pool).uploads - budget

\* processFile(file); the callbacks it registers close over this render's
\* `t` and calculateTotals, hence over this render's language. Each entry of
\* pending carries the number of the call that registered it.
ProcessFile(file) ==
  /\ budget' = budget - 1
  /\ salesData' = Null
  /\ selectedMonth' = "ALL"
  /\ availableMonths' = <<>>
  /\ lastCall' = Null
  /\ IF isCsv(file)
     THEN /\ error' = ""
          /\ pending' = Append(pending, [file |-> file, lang |-> language, reader |-> "papa",
                                          upload |-> Started + 1])
     ELSE IF isExcel(file)
     THEN /\ error' = ""
          /\ pending' = Append(pending, [file |-> file, lang |-> language, reader |-> "xlsx",
                                          upload |-> Started + 1])
     ELSE /\ error' = translations(language).errorFileType
          /\ pending' = pending
  /\ UNCHANGED <<Env, engineSort, language, AppVars>>

\* Some date of the rows makes no Date: the comparators of the two sorts
\* return NaN on it and may leave the order to the engine.
EngineOrders(data) ==
  \E i \in 1..Len(data) :
    dateCreatedOf(data[i]) # "" /\ DateTime(dateCreatedOf(data[i]), tz).nan

\* What the engine is on record with for these rows in this language.
SortedBefore(data, lang) == {s \in engineSort : s.data = data /\ s.lang = lang}

\* CallCalculateTotals with retailTotal, clubTotal and dailyMap kept from one
\* call to the next: the totals of the result on display are added to.
CallCalculateTotalsKept(data, fileName, lang, upload) ==
  \E r \in calculateTotals(data, fileName, lang, tz) :
    /\ \A s \in SortedBefore(data, lang) :
         /\ r.salesData.dailyData = s.dailyData
         /\ r.availableMonths = s.availableMonths
    /\ engineSort' =
         IF EngineOrders(data)
         THEN (engineSort \ SortedBefore(data, lang))
                \cup {[data |-> data, lang |-> lang,
                        dailyData |-> r.salesData.dailyData,
                        availableMonths |-> r.availableMonths,
                        calls |-> IF SortedBefore(data, lang) = {} THEN 1
                                  ELSE (CHOOSE s \in SortedBefore(data, lang) : TRUE).calls + 1]}
         ELSE engineSort
    /\ availableMonths' = r.availableMonths
    /\ selectedMonth' = r.selectedMonth
    /\ salesData' =
         IF salesData = Null THEN r.salesData
         ELSE [r.salesData EXCEPT !.retailTotal = @ + salesData.retailTotal,
                                  !.clubTotal = @ + salesData.clubTotal]
    /\ lastCall' = [data |-> data, fileName |-> fileName, lang |-> lang,
                    upload |-> upload]

\* What the call calculateTotals(data, fileName) made by the callback of
\* call number `upload` of processFile, in the render of language `lang`,
\* does to the state.
\* The two sorts of calculateTotals are calls of one function, the engine's
\* Array.prototype.sort: where the comparator leaves the order to the engine,
\* the order it gave the rows once is the order it gives them again.
CallCalculateTotals(data, fileName, lang, upload) ==
  \E r \in calculateTotals(data, fileName, lang, tz) :
    /\ \A s \in SortedBefore(data, lang) :
         /\ r.salesData.dailyData = s.dailyData
         /\ r.availableMonths = s.availableMonths
    /\ engineSort' =
         IF EngineOrders(data)
         THEN (engineSort \ SortedBefore(data, lang))
                \cup {[data |-> data, lang |-> lang,
                        dailyData |-> r.salesData.dailyData,
                        availableMonths |-> r.availableMonths,
                        calls |-> IF SortedBefore(data, lang) = {} THEN 1
                                  ELSE (CHOOSE s \in SortedBefore(data, lang) : TRUE).calls + 1]}
         ELSE engineSort
    /\ availableMonths' = r.availableMonths
    /\ selectedMonth' = r.selectedMonth
    /\ salesData' = r.salesData
    /\ lastCall' = [data |-> data, fileName |-> fileName, lang |-> lang,
                    upload |-> upload]

\* Papa.parse's complete callback.
PapaComplete(i) ==
  /\ pending[i].reader = "papa"
  /\ pending[i].file.fault = "none"
  /\ CallCalculateTotals(pending[i].file.data, pending[i].file.name, pending[i].lang,
                         pending[i].upload)
  /\ pending' = RemoveAt(pending, i)
  /\ UNCHANGED <<Env, budget, language, error, AppVars>>

\* Papa.parse's error callback.
PapaError(i) ==
  /\ pending[i].reader = "papa"
  /\ pending[i].file.fault # "none"
  /\ error' = translations(pending[i].lang).errorCsv \o ": " \o ErrMessage
  /\ pending' = RemoveAt(pending, i)
  /\ UNCHANGED <<Env, engineSort, budget, language, salesData, selectedMonth,
                 availableMonths, lastCall, AppVars>>

\* reader.onload: XLSX.read throws on bytes it cannot decode.
ReaderOnload(i) ==
  /\ pending[i].reader = "xlsx"
  /\ pending[i].file.fault # "read"
  /\ IF pending[i].file.fault = "parse"
     THEN /\ error' = translations(pending[i].lang).errorExcel
          /\ UNCHANGED <<salesData, selectedMonth, availableMonths, lastCall,
                        engineSort>>
     ELSE /\ CallCalculateTotals(pending[i].file.data, pending[i].file.name,
                                 pending[i].lang, pending[i].upload)
          /\ error' = error
  /\ pending' = RemoveAt(pending, i)
  /\ UNCHANGED <<Env, budget, language, AppVars>>

\* ReaderOnerror with no handler set on the reader: the failed read ends
\* without a message.
ReaderOnerrorUnset(i) ==
  /\ pending[i].reader = "xlsx"
  /\ pending[i].file.fault = "read"
  /\ pending' = RemoveAt(pending, i)
  /\ UNCHANGED <<Env, engineSort, budget, language, salesData, selectedMonth,
                 availableMonths, lastCall, error, AppVars>>

\* reader.onerror
ReaderOnerror(i) ==
  /\ pending[i].reader = "xlsx"
  /\ pending[i].file.fault = "read"
  /\ error' = translations(pending[i].lang).errorExcel
  /\ pending' = RemoveAt(pending, i)
  /\ UNCHANGED <<Env, engineSort, budget, language, salesData, selectedMonth,
                 availableMonths, lastCall, AppVars>>

\* handleFileInput / handleDrop: the user hands over a file.
handleFileInput ==
  /\ component = "SalesAnalyzer"
  /\ budget > 0
  /\ \E file \in FilesOf(UniverseOf(pool)) : ProcessFile(file)

toggleLanguage ==
  /\ language' = IF language = "en" THEN "es" ELSE "en"
  /\ UNCHANGED <<Env, engineSort, budget, salesData, error, selectedMonth, availableMonths,
                 pending, lastCall, AppVars>>

\* The ALL button rendered whatever the number of months.
SelectAllAlways ==
  /\ salesData # Null
  /\ selectedMonth' = "ALL"
  /\ UNCHANGED <<Env, engineSort, budget, language, salesData, error, availableMonths,
                 pending, lastCall, AppVars>>

\* The ALL button, rendered with the results when there are several months.
SelectAll ==
  /\ salesData # Null
  /\ Len(availableMonths) > 1
  /\ selectedMonth' = "ALL"
  /\ UNCHANGED <<Env, engineSort, budget, language, salesData, error, availableMonths,
                 pending, lastCall, AppVars>>

\* A month button; it is disabled when it is the only one.
SelectMonth(month) ==
  /\ salesData # Null
  /\ Len(availableMonths) # 1
  /\ selectedMonth' = month
  /\ UNCHANGED <<Env, engineSort, budget, language, salesData, error, availableMonths,
                 pending, lastCall, AppVars>>

----------------------------------------------------------------------------
(* App.tsx: handlers *)

SalesAnalyzerVars ==
  <<salesData, error, selectedMonth, availableMonths, pending, engineSort>>

AppProcessFile(file) ==
  /\ budget' = budget - 1
  /\ appSalesData' = Null
  /\ lastCall' = Null
  /\ IF fileExtension(file) = "csv"
     THEN /\ appError' = ""
          /\ appPending' = Append(appPending, [file |-> file, lang |-> language, reader |-> "papa",
                                                upload |-> Started + 1])
     ELSE IF fileExtension(file) = "xlsx" \/ fileExtension(file) = "xls"
     THEN /\ appError' = ""
          /\ appPending' = Append(appPending, [file |-> file, lang |-> language, reader |-> "xlsx",
                                                upload |-> Started + 1])
     ELSE /\ appError' = translations(language).errorFileType
          /\ appPending' = appPending
  /\ UNCHANGED <<Env, language, SalesAnalyzerVars>>

AppCallCalculateTotals(data, fileName, upload) ==
  /\ appSalesData' = AppCalculateTotals(data, fileName)
  /\ lastCall' = [data |-> data, fileName |-> fileName, lang |-> language,
                  upload |-> upload]

AppPapaComplete(i) ==
  /\ appPending[i].reader = "papa"
  /\ appPending[i].file.fault = "none"
  /\ AppCallCalculateTotals(appPending[i].file.data, appPending[i].file.name,
                            appPending[i].upload)
  /\ appPending' = RemoveAt(appPending, i)
  /\ UNCHANGED <<Env, budget, language, appError, SalesAnalyzerVars>>

AppPapaError(i) ==
  /\ appPending[i].reader = "papa"
  /\ appPending[i].file.fault # "none"
  /\ appError' = translations(appPending[i].lang).errorCsv \o ": " \o ErrMessage
  /\ appPending' = RemoveAt(appPending, i)
  /\ UNCHANGED <<Env, budget, language, appSalesData, lastCall, SalesAnalyzerVars>>

AppReaderOnload(i) ==
  /\ appPending[i].reader = "xlsx"
  /\ appPending[i].file.fault # "read"
  /\ IF appPending[i].file.fault = "parse"
     THEN /\ appError' = translations(appPending[i].lang).errorExcel
          /\ UNCHANGED <<appSalesData, lastCall>>
     ELSE /\ AppCallCalculateTotals(appPending[i].file.data, appPending[i].file.name,
                                    appPending[i].upload)
          /\ appError' = appError
  /\ appPending' = RemoveAt(appPending, i)
  /\ UNCHANGED <<Env, budget, language, SalesAnalyzerVars>>

AppHandleFileInput ==
  /\ component = "App"
  /\ budget > 0
  /\ \E file \in FilesOf(UniverseOf(pool)) : AppProcessFile(file)

\* The FileReader fails: App.tsx sets no onerror, the read ends unnoticed.
AppReaderFails(i) ==
  /\ appPending[i].reader = "xlsx"
  /\ appPending[i].file.fault = "read"
  /\ appPending' = RemoveAt(appPending, i)
  /\ UNCHANGED <<Env, budget, language, appSalesData, appError, lastCall,
                 SalesAnalyzerVars>>

----------------------------------------------------------------------------

Next ==
  \/ handleFileInput
  \/ \E i \in 1..Len(pending) : PapaComplete(i)
  \/ \E i \in 1..Len(pending) : PapaError(i)
  \/ \E i \in 1..Len(pending) : ReaderOnload(i)
  \/ \E i \in 1..Len(pending) : ReaderOnerror(i)
  \/ toggleLanguage
  \/ SelectAll
  \/ \E i \in 1..Len(availableMonths) : SelectMonth(availableMonths[i])
  \/ AppHandleFileInput
  \/ \E i \in 1..Len(appPending) : AppPapaComplete(i)
  \/ \E i \in 1..Len(appPending) : AppPapaError(i)
  \/ \E i \in 1..Len(appPending) : AppReaderOnload(i)
  \/ \E i \in 1..Len(appPending) : AppReaderFails(i)

Spec == Init /\ [][Next]_vars

----------------------------------------------------------------------------
(* The helpers called on their own: getMonthFromDate on a date string,     *)
(* the amount parse of calculateTotals on a profit field.                  *)

Two(n) == IF n < 10 THEN "0" \o ToString(n) ELSE ToString(n)

\* Month and day fields, with and without the leading zero; days in and out
\* of the calendar.
MonthFields == {ToString(n) : n \in 1..12} \cup {Two(n) : n \in 1..12}

DayFields == {"1", "05", "15", "28", "32", "00"}

YearFields == {"1999", "2023", "2024"}

\* Date strings of the shape MM/DD/YYYY.
ShapedDates ==
  {mm \o "/" \o dd \o "/" \o yyyy :
     mm \in MonthFields, dd \in DayFields, yyyy \in YearFields}

\* Date strings of other shapes: ISO, year first, day first, two parts, text.
OtherDates ==
  {"2024-01-05", "2024-03-01", "2024-12-31", "2023-07-15", "2024/01/05",
   "2024/03/05", "2023/11/20", "13/01/2024", "25/12/2023", "0/10/2024",
   "garbage", "N/A", "2024-13-01"}

\* Profit fields: with and without the currency symbol, with no, one, two
\* and three thousands separators, and fields that are no numbers.
ProfitFields ==
  {"$10.00", "10.00", "$5.50", "$0.99", "$999.99", "$1,234.50", "1,234.50",
   "$12,345.00", "$1,234,567.00", "$1,234,567,890.12", "-$3.00", "$-3.00",
   "N/A", "12abc", "$", "abc12"}

Probes ==
  {[fn |-> "getMonthFromDate", arg |-> d] : d \in ShapedDates \cup OtherDates}
    \cup {[fn |-> "parseProfit", arg |-> p] : p \in ProfitFields}

HelperInit ==
  /\ component = "SalesAnalyzer"
  /\ pool = "dates"
  /\ budget = 0
  /\ tz \in TimeZones
  /\ language \in Languages
  /\ salesData = Null
  /\ error = ""
  /\ selectedMonth = "ALL"
  /\ availableMonths = <<>>
  /\ pending = <<>>
  /\ lastCall = Null
  /\ appSalesData = Null
  /\ appError = ""
  /\ appPending = <<>>
  /\ engineSort = {}
  /\ probe \in Probes
  /\ answer = Null

NotProbe ==
  <<component, tz, pool, budget, language, salesData, error, selectedMonth,
    availableMonths, pending, lastCall, appSalesData, appError, appPending,
    engineSort>>

\* getMonthFromDate(dateString) in the render of the active language.
GetMonthFromDate ==
  /\ probe.fn = "getMonthFromDate"
  /\ answer = Null
  /\ answer' = [label |-> getMonthFromDate(probe.arg, language, tz)]
  /\ UNCHANGED <<probe, NotProbe>>

\* parseFloat(profitString.toString().replace('$', '').replace(',', ''))
ParseProfit ==
  /\ probe.fn = "parseProfit"
  /\ answer = Null
  /\ answer' = [profit |-> parseProfit(probe.arg)]
  /\ UNCHANGED <<probe, NotProbe>>

HelperNext == GetMonthFromDate \/ ParseProfit

HelperSpec == HelperInit /\ [][HelperNext]_vars

----------------------------------------------------------------------------
(* SalesAnalyzer fed the same rows more than once. *)

ReloadInit ==
  /\ component = "SalesAnalyzer"
  /\ pool = "again"
  /\ budget = UniverseOf(pool).uploads
  /\ tz \in UniverseOf(pool).zones
  /\ language \in Languages
  /\ salesData = Null
  /\ error = ""
  /\ selectedMonth = "ALL"
  /\ availableMonths = <<>>
  /\ pending = <<>>
  /\ lastCall = Null
  /\ appSalesData = Null
  /\ appError = ""
  /\ appPending = <<>>
  /\ engineSort = {}
  /\ probe = Null
  /\ answer = Null

ReloadNext ==
  \/ handleFileInput
  \/ \E i \in 1..Len(pending) : PapaComplete(i)

ReloadSpec == ReloadInit /\ [][ReloadNext]_vars

----------------------------------------------------------------------------
(* Properties of the aggregation *)

\* SalesAnalyzer has a result on display; lastCall holds the rows and the
\* language it was computed from.
Loaded == component = "SalesAnalyzer" /\ salesData # Null

\* The row is skipped by the aggregation: the excluded customer, no receipt
\* type, no profit, or a profit that is not a number.
RowSkipped(row) ==
  \/ toLowerCase(trim(customerNameOf(row))) = "ashley regis"
  \/ receiptTypeOf(row) = ""
  \/ profitStringOf(row) = ""
  \/ parseProfit(profitStringOf(row)).nan

Amount(row) == parseProfit(profitStringOf(row)).v

RetailRow(row) == receiptTypeOf(row) \in {"Retail Sale", "Venta al menudeo"}

ClubRow(row) == receiptTypeOf(row) \in {"Club Visit/Sale", "Visita al Club / Venta"}

\* The sum of f over the indices in S.
RECURSIVE SumOver(_, _)
SumOver(f, S) ==
  IF S = {} THEN 0
  ELSE LET x == CHOOSE y \in S : TRUE IN f[x] + SumOver(f, S \ {x})

\* The indices of the rows of data that are not skipped.
KeptRows(data) == {i \in 1..Len(data) : ~RowSkipped(data[i])}

Amounts(data) == [i \in 1..Len(data) |-> Amount(data[i])]

\* The result as calculateTotals sets it.
Result == [availableMonths |-> availableMonths, selectedMonth |-> selectedMonth,
           salesData |-> salesData]

----------------------------------------------------------------------------
(* C1 *)

\* C1: retailTotal is the sum of the parsed amounts of the non-skipped rows
\* whose receipt type is exactly "Retail Sale" or "Venta al menudeo",
\* clubTotal the sum over those whose type is exactly "Club Visit/Sale" or
\* "Visita al Club / Venta"; a row of any other type, a variant in case or
\* white space included, adds to neither.
C1_RunningTotals ==
  Loaded =>
    LET data == lastCall.data
    IN  /\ salesData.retailTotal =
             SumOver(Amounts(data), {i \in KeptRows(data) : RetailRow(data[i])})
        /\ salesData.clubTotal =
             SumOver(Amounts(data), {i \in KeptRows(data) : ClubRow(data[i])})

\* A result computed from a Spanish retail row, a club row and a row whose
\* type differs from a literal in case or white space only.
C1_Witness ==
  /\ Loaded
  /\ \E i \in KeptRows(lastCall.data) :
       receiptTypeOf(lastCall.data[i]) = "Venta al menudeo"
  /\ \E i \in KeptRows(lastCall.data) :
       receiptTypeOf(lastCall.data[i]) \in {"retail sale", "Retail Sale ", " Club Visit/Sale"}
  /\ salesData.retailTotal > 0

----------------------------------------------------------------------------
(* C2 *)

ExcludedRows(data) ==
  {i \in 1..Len(data) : toLowerCase(trim(customerNameOf(data[i]))) = "ashley regis"}

\* The totals, the daily series and the months, without the selection the
\* user may have changed since.
Aggregates(r) == [salesData |-> r.salesData, availableMonths |-> r.availableMonths]

\* In SalesAnalyzer the result on display is one that the rows without any
\* one excluded row give.
SalesAnalyzerExcludes ==
  Loaded =>
    \A i \in ExcludedRows(lastCall.data) :
      Aggregates(Result) \in
        {Aggregates(r) : r \in calculateTotals(RemoveAt(lastCall.data, i),
                                                lastCall.fileName, lastCall.lang, tz)}

\* In App the result on display is the one that the rows without any one
\* excluded row give.
AppExcludes ==
  (component = "App" /\ appSalesData # Null) =>
    \A i \in ExcludedRows(lastCall.data) :
      appSalesData = AppCalculateTotals(RemoveAt(lastCall.data, i), lastCall.fileName)

\* C2: a row whose customer name, trimmed and lower-cased, is "ashley regis"
\* is fully excluded: the aggregation result is the one the rows give with
\* that row removed, in either component's calculateTotals.
C2_ExcludedRowRemoved == SalesAnalyzerExcludes /\ AppExcludes

----------------------------------------------------------------------------
(* C3 *)

Dated(data, date) == {i \in KeptRows(data) : dateCreatedOf(data[i]) = date}

\* C3: every non-skipped row with a date, whatever its kind, has an entry in
\* the daily series under that very date string, whose retail (club) field
\* is the sum of the amounts of the Retail (Club) rows of that date, and
\* whose total is their sum: 0, 0 and 0 for a date seen on rows of other
\* types only.
C3_DailyBuckets ==
  Loaded =>
    LET data == lastCall.data
        dd   == salesData.dailyData
    IN  \A i \in KeptRows(data) :
          dateCreatedOf(data[i]) # "" =>
            \E k \in 1..Len(dd) :
              /\ dd[k].date = dateCreatedOf(data[i])
              /\ dd[k].retail =
                   SumOver(Amounts(data),
                           {j \in Dated(data, dd[k].date) : RetailRow(data[j])})
              /\ dd[k].club =
                   SumOver(Amounts(data),
                           {j \in Dated(data, dd[k].date) : ClubRow(data[j])})
              /\ dd[k].total = dd[k].retail + dd[k].club

\* A date that only a row of another type carries has its entry, all zero,
\* beside running totals that an undated row fed.
C3_Witness ==
  /\ Loaded
  /\ \E k \in 1..Len(salesData.dailyData) :
       /\ salesData.dailyData[k].retail = 0
       /\ salesData.dailyData[k].club = 0
       /\ salesData.dailyData[k].total = 0
       /\ \E i \in Dated(lastCall.data, salesData.dailyData[k].date) :
            receiptTypeOf(lastCall.data[i]) = "Refund"
  /\ salesData.retailTotal + salesData.clubTotal > 0

----------------------------------------------------------------------------
(* C4 *)

NoTotals == [retailTotal |-> 0, clubTotal |-> 0, dailyMap |-> <<>>]

Entries(days) == {days[k] : k \in 1..Len(days)}

\* C4: when every non-skipped row carries a date, retailTotal + clubTotal is
\* the sum of the totals of the daily series; and a non-skipped Retail or
\* Club row without a date adds its amount to its running total and leaves
\* the buckets as they are without it.
C4_TotalsAndBuckets ==
  Loaded =>
    LET data == lastCall.data
        dd   == salesData.dailyData
    IN  /\ (\A i \in KeptRows(data) : dateCreatedOf(data[i]) # "") =>
             salesData.retailTotal + salesData.clubTotal =
               SumOver([k \in 1..Len(dd) |-> dd[k].total], 1..Len(dd))
        /\ \A i \in KeptRows(data) :
             (dateCreatedOf(data[i]) = "" /\ (RetailRow(data[i]) \/ ClubRow(data[i]))) =>
               LET less == forEach(RemoveAt(data, i), NoTotals)
               IN  /\ salesData.retailTotal =
                        less.retailTotal + (IF RetailRow(data[i]) THEN Amount(data[i]) ELSE 0)
                   /\ salesData.clubTotal =
                        less.clubTotal + (IF ClubRow(data[i]) THEN Amount(data[i]) ELSE 0)
                   /\ Len(dd) = Len(less.dailyMap)
                   /\ Entries(dd) = Entries(toDailyProfit(less.dailyMap))

\* An undated Club row beside a dated Retail row: the running totals exceed
\* what the one bucket holds.
C4_Witness ==
  /\ Loaded
  /\ \E i \in KeptRows(lastCall.data) :
       dateCreatedOf(lastCall.data[i]) = "" /\ ClubRow(lastCall.data[i])
  /\ \E i \in KeptRows(lastCall.data) :
       dateCreatedOf(lastCall.data[i]) # "" /\ RetailRow(lastCall.data[i])
  /\ Len(salesData.dailyData) = 1
  /\ salesData.clubTotal > salesData.dailyData[1].club

----------------------------------------------------------------------------
(* C5 *)

\* C5: the running retailTotal is the sum of the retail fields of the daily
\* series and the running clubTotal the sum of its club fields, so that the
\* totals getFilteredTotals gives for 'ALL', which the summary tab shows, are
\* the running totals.
C5_TotalsAreBucketSums ==
  Loaded =>
    LET dd == salesData.dailyData
    IN  /\ salesData.retailTotal =
             SumOver([k \in 1..Len(dd) |-> dd[k].retail], 1..Len(dd))
        /\ salesData.clubTotal =
             SumOver([k \in 1..Len(dd) |-> dd[k].club], 1..Len(dd))
        /\ getFilteredTotals(dd, "ALL", language, tz) =
             [retailTotal |-> salesData.retailTotal, clubTotal |-> salesData.clubTotal]

----------------------------------------------------------------------------
(* C6 *)

Labels(lang) == {monthNames(lang)[n] : n \in 1..12}

\* The filters worth telling apart on a series: the labels its dates derive,
\* a label that may be absent from it, and 'ALL'.
Filters(dd, lang) ==
  ({getMonthFromDate(dd[k].date, lang, tz) : k \in 1..Len(dd)} \ {""})
    \cup {monthNames(lang)[12], "ALL"}

\* The positions of the daily series that a filter keeps.
Kept(dd, m, lang) ==
  IF m = "ALL" THEN 1..Len(dd)
  ELSE {k \in 1..Len(dd) : getMonthFromDate(dd[k].date, lang, tz) = m}

\* The n-th smallest member of a set of positions.
Nth(I, n) == CHOOSE x \in I : Cardinality({y \in I : y < x}) = n - 1

\* C6: for a month label m, getFilteredDailyData returns exactly the entries
\* of the series whose date derives the label m, in the order of the series;
\* for 'ALL' it returns the series; and getFilteredTotals returns the sums of
\* the retail and of the club fields of that subsequence.
C6_FilterIsSubsequence ==
  Loaded =>
    \A lang \in Languages :
      \A m \in Filters(salesData.dailyData, lang) :
        LET dd == salesData.dailyData
            I  == Kept(dd, m, lang)
            f  == getFilteredDailyData(dd, m, lang, tz)
            t  == getFilteredTotals(dd, m, lang, tz)
        IN  /\ Len(f) = Cardinality(I)
            /\ \A n \in 1..Len(f) : f[n] = dd[Nth(I, n)]
            /\ t.retailTotal = SumOver([k \in 1..Len(dd) |-> dd[k].retail], I)
            /\ t.clubTotal = SumOver([k \in 1..Len(dd) |-> dd[k].club], I)

\* A month that keeps two entries of a longer series.
C6_Witness ==
  /\ Loaded
  /\ \E m \in Labels(language) :
       /\ Len(getFilteredDailyData(salesData.dailyData, m, language, tz)) >= 2
       /\ Len(getFilteredDailyData(salesData.dailyData, m, language, tz))
            < Len(salesData.dailyData)
       /\ getFilteredTotals(salesData.dailyData, m, language, tz).retailTotal > 0

----------------------------------------------------------------------------
(* C7 *)

\* C7: for every label m of availableMonths, the retail (club) sum of the
\* buckets filtered by m is the sum of the amounts of the non-skipped Retail
\* (Club) rows whose date derives the label m.
C7_BucketsAgreeWithRows ==
  Loaded =>
    \A n \in 1..Len(availableMonths) :
      LET m    == availableMonths[n]
          data == lastCall.data
          rows == {i \in KeptRows(data) :
                     getMonthFromDate(dateCreatedOf(data[i]), lastCall.lang, tz) = m}
          t    == getFilteredTotals(salesData.dailyData, m, lastCall.lang, tz)
      IN  /\ t.retailTotal = SumOver(Amounts(data), {i \in rows : RetailRow(data[i])})
          /\ t.clubTotal = SumOver(Amounts(data), {i \in rows : ClubRow(data[i])})

\* Two rows of one date, with another month beside them.
C7_Witness ==
  /\ Loaded
  /\ Len(availableMonths) >= 2
  /\ \E i, j \in KeptRows(lastCall.data) :
       /\ i < j
       /\ dateCreatedOf(lastCall.data[i]) = dateCreatedOf(lastCall.data[j])
       /\ getMonthFromDate(dateCreatedOf(lastCall.data[i]), lastCall.lang, tz)
            = availableMonths[1]
       /\ Amount(lastCall.data[i]) > 0 /\ Amount(lastCall.data[j]) > 0

----------------------------------------------------------------------------
(* C8 *)

FirstSeen(data, date) ==
  CHOOSE i \in Dated(data, date) : \A j \in Dated(data, date) : i <= j

\* C8: in the daily series, also when some of its dates do not parse, any two
\* entries whose dates parse stand in ascending calendar order, and entries
\* of the same instant stand in the order their dates were first seen.
C8_ParseableAscending ==
  Loaded =>
    LET dd == salesData.dailyData
        T(k) == DateTime(dd[k].date, tz)
    IN  \A a, b \in 1..Len(dd) :
          (a < b /\ ~T(a).nan /\ ~T(b).nan) =>
            \/ T(a).v < T(b).v
            \/ /\ T(a).v = T(b).v
               /\ FirstSeen(lastCall.data, dd[a].date) < FirstSeen(lastCall.data, dd[b].date)

----------------------------------------------------------------------------
(* C9 *)

Parses(dd, k) == ~DateTime(dd[k].date, tz).nan

\* The latest parseable instant among the buckets labelled m.
Latest(dd, m, lang) ==
  LET ts == {DateTime(dd[k].date, tz).v :
               k \in {j \in Kept(dd, m, lang) : Parses(dd, j)}}
  IN  CHOOSE x \in ts : \A y \in ts : y <= x

\* C9: availableMonths holds the distinct labels of the daily series, each
\* once, a label standing before another when its latest bucket date is not
\* the earlier one; and its first label is the label of the bucket whose date
\* is the latest of the whole series.
C9_MonthsLatestFirst ==
  Loaded =>
    LET dd   == salesData.dailyData
        lang == lastCall.lang
        am   == availableMonths
    IN  /\ {am[n] : n \in 1..Len(am)} =
             {getMonthFromDate(dd[k].date, lang, tz) : k \in 1..Len(dd)} \ {""}
        /\ \A a, b \in 1..Len(am) : a < b => am[a] # am[b]
        /\ \A a, b \in 1..Len(am) :
             (/\ a < b
              /\ \E k \in Kept(dd, am[a], lang) : Parses(dd, k)
              /\ \E k \in Kept(dd, am[b], lang) : Parses(dd, k)) =>
               Latest(dd, am[a], lang) >= Latest(dd, am[b], lang)
        /\ \A k \in 1..Len(dd) :
             (/\ Len(am) > 0
              /\ Parses(dd, k)
              /\ \A j \in 1..Len(dd) :
                   Parses(dd, j) => DateTime(dd[j].date, tz).v <= DateTime(dd[k].date, tz).v) =>
               am[1] = getMonthFromDate(dd[k].date, lang, tz)

----------------------------------------------------------------------------
(* C10 *)

\* A decode of an upload completes and hands its rows to calculateTotals.
Completes ==
  \E i \in 1..Len(pending) :
    \/ PapaComplete(i)
    \/ pending[i].file.fault = "none" /\ ReaderOnload(i)

DefaultSelection ==
  /\ Len(availableMonths) = 1 => selectedMonth = availableMonths[1]
  /\ Len(availableMonths) >= 2 => selectedMonth = availableMonths[1]
  /\ Len(availableMonths) = 0 =>
       /\ selectedMonth = "ALL"
       /\ getFilteredDailyData(salesData.dailyData, selectedMonth, language, tz)
            = salesData.dailyData

----------------------------------------------------------------------------
(* C11 *)

\* C11: with a result on display, the ALL button can be clicked exactly when
\* availableMonths has two labels or more; and while availableMonths has
\* exactly one label, whatever buttons the user has clicked since the upload,
\* selectedMonth is that label.
C11_SingleMonthPinned ==
  Loaded =>
    /\ (ENABLED SelectAll) <=> Len(availableMonths) >= 2
    /\ Len(availableMonths) = 1 => selectedMonth = availableMonths[1]

\* One month on display, and the other language active by now.
C11_Witness ==
  /\ Loaded
  /\ Len(availableMonths) = 1
  /\ Len(salesData.dailyData) >= 2
  /\ language # lastCall.lang

----------------------------------------------------------------------------
(* C12 *)

Field(s) == s # "" /\ AllDigits(s)

\* The date string has the shape MM/DD/YYYY, MM between 1 and 12.
IsMonthDayYear(s) ==
  LET p == split(s, "/")
  IN  /\ Len(p) = 3
      /\ Field(p[1]) /\ Len(p[1]) <= 2
      /\ Field(p[2]) /\ Len(p[2]) <= 2
      /\ Field(p[3]) /\ Len(p[3]) = 4
      /\ DigitsValue(p[1], 0) \in 1..12

MonthAnswered == probe # Null /\ probe.fn = "getMonthFromDate" /\ answer # Null

\* C12: for a date string of the shape MM/DD/YYYY with MM between 1 and 12,
\* getMonthFromDate returns the MM-th month name of the active language,
\* whatever DD and YYYY are, a day that no calendar has included.
C12_MonthFromFirstField ==
  (MonthAnswered /\ IsMonthDayYear(probe.arg)) =>
    answer.label = monthNames(language)[DigitsValue(split(probe.arg, "/")[1], 0)]

\* A February the 32nd, which no Date can be made of, labelled Febrero.
C12_Witness ==
  /\ MonthAnswered
  /\ IsMonthDayYear(probe.arg)
  /\ DateTime(probe.arg, tz).nan
  /\ language = "es"
  /\ answer.label = "Febrero"

----------------------------------------------------------------------------
(* C13 *)

\* The label of the month new Date(s) falls in, none if the Date is invalid.
ParsedLabel(s, lang) ==
  IF DateTime(s, tz).nan THEN ""
  ELSE monthNames(lang)[getMonth(DateTime(s, tz).v, tz) + 1]

\* C13: for a date string that has not the shape MM/DD/YYYY, getMonthFromDate
\* returns the label of the month that the generic parse of the string falls
\* in, and no label only when that parse is invalid.
C13_OtherShapesParsed ==
  (MonthAnswered /\ ~IsMonthDayYear(probe.arg)) =>
    answer.label = ParsedLabel(probe.arg, language)

----------------------------------------------------------------------------
(* C14 *)

\* s without any occurrence of the character c.
RECURSIVE RemoveAll(_, _)
RemoveAll(s, c) ==
  IF s = "" THEN ""
  ELSE (IF Ch(s, 1) = c THEN "" ELSE Ch(s, 1)) \o RemoveAll(Rest(s), c)

\* The field without its leading currency symbol and without its commas.
Stripped(s) ==
  RemoveAll(IF s # "" /\ Ch(s, 1) = "$" THEN Rest(s) ELSE s, ",")

\* Digits, then possibly a point and digits.
IsDecimal(s) ==
  LET ip == DigitPrefix(s)
      r  == SubSeq(s, Len(ip) + 1, Len(s))
  IN  /\ ip # ""
      /\ \/ r = ""
         \/ Ch(r, 1) = "." /\ Field(Rest(r))

ProfitAnswered == probe # Null /\ probe.fn = "parseProfit" /\ answer # Null

\* C14: the amount parsed from a profit field is the decimal value of the
\* field without its leading currency symbol and without any of its
\* thousands separators, however many commas there are.
C14_AmountWithoutCommas ==
  (ProfitAnswered /\ IsDecimal(Stripped(probe.arg))) =>
    answer.profit = parseFloat(Stripped(probe.arg))

----------------------------------------------------------------------------
(* C15 *)

\* The row has no receipt type, no profit, or a profit that is no number once
\* the currency symbol and the commas are off.
Malformed(row) ==
  \/ receiptTypeOf(row) = ""
  \/ profitStringOf(row) = ""
  \/ ~IsDecimal(Stripped(profitStringOf(row)))

\* With one upload only, no other upload's failure can have set the error.
OneUpload == UniverseOf(pool).uploads = 1

\* SalesAnalyzer aggregates as if any one malformed row were not there.
SalesAnalyzerSkips ==
  Loaded =>
    /\ \A i \in 1..Len(lastCall.data) :
         Malformed(lastCall.data[i]) =>
           Aggregates(Result) \in
             {Aggregates(r) : r \in calculateTotals(RemoveAt(lastCall.data, i),
                                                     lastCall.fileName, lastCall.lang, tz)}
    /\ OneUpload => error = ""

\* App aggregates as if any one malformed row were not there.
AppSkips ==
  (component = "App" /\ appSalesData # Null) =>
    /\ \A i \in 1..Len(lastCall.data) :
         Malformed(lastCall.data[i]) =>
           appSalesData = AppCalculateTotals(RemoveAt(lastCall.data, i), lastCall.fileName)
    /\ OneUpload => appError = ""

\* C15: a row without receipt type or without profit, or whose profit is not
\* a number after stripping ("N/A", digits followed by text), is skipped
\* silently: the totals, the buckets and the months are those of the rows
\* without it, and no error is set, in either component.
C15_MalformedRowSkipped == SalesAnalyzerSkips /\ AppSkips

----------------------------------------------------------------------------
(* C16 *)

\* The row is under the Spanish headers, with a Spanish category value.
SpanishRow(row) ==
  /\ row.ReceiptType = "" /\ row.Profit = ""
  /\ row.DateCreated = "" /\ row.CustomerName = ""
  /\ row.TipoDeRecibo \in {"Venta al menudeo", "Visita al Club / Venta"}

\* The same row under the English headers, with the English category value.
InEnglish(row) ==
  EnRow(IF row.TipoDeRecibo = "Venta al menudeo" THEN "Retail Sale" ELSE "Club Visit/Sale",
        row.Ganancia, row.FechaDeCreacion, row.NombreDelCliente)

\* SalesAnalyzer aggregates the rows as it does with any one Spanish row put
\* in English.
SalesAnalyzerLocale ==
  Loaded =>
    \A i \in 1..Len(lastCall.data) :
      SpanishRow(lastCall.data[i]) =>
        Aggregates(Result) \in
          {Aggregates(r) :
             r \in calculateTotals([lastCall.data EXCEPT ![i] = InEnglish(@)],
                                   lastCall.fileName, lastCall.lang, tz)}

\* App aggregates the rows as it does with any one Spanish row put in English.
AppLocale ==
  (component = "App" /\ appSalesData # Null) =>
    \A i \in 1..Len(lastCall.data) :
      SpanishRow(lastCall.data[i]) =>
        appSalesData =
          AppCalculateTotals([lastCall.data EXCEPT ![i] = InEnglish(@)], lastCall.fileName)

\* C16: a row under the Spanish headers with a Spanish category value gives
\* the same running totals, daily series and availableMonths as the same row
\* under the English headers with the English category value, among any
\* other rows, in either component's calculateTotals.
C16_LocaleEquivalence == SalesAnalyzerLocale /\ AppLocale

----------------------------------------------------------------------------
(* C17 *)

\* The labels in state are names of the month table of the active language.
LabelsActive ==
  /\ \A n \in 1..Len(availableMonths) : availableMonths[n] \in Labels(language)
  /\ selectedMonth # "ALL" => selectedMonth \in Labels(language)

\* C17: when the language is switched while a result is on display, the
\* aggregation is computed anew: after the step, every label of
\* availableMonths and the selected month, if one is selected, are names of
\* the month table of the language that is active now.
C17_ToggleRecomputes == [][(Loaded /\ toggleLanguage) => LabelsActive']_vars

----------------------------------------------------------------------------
(* C18 *)

\* C18: the labels an aggregation stores in availableMonths and
\* selectedMonth are in the language that is active when calculateTotals
\* runs, also when the language was switched between processFile and the
\* decoder's completion.
C18_LabelsAtCompletion == [][Completes => LabelsActive']_vars

----------------------------------------------------------------------------
(* C19 *)

\* The file's extension and content type are those of no CSV and no Excel
\* file.
NeitherCsvNorExcel(file) ==
  /\ fileExtension(file) \notin {"csv", "xlsx", "xls"}
  /\ file.type \notin {"text/csv", "application/vnd.ms-excel",
                       "application/vnd.openxmlformats-officedocument.spreadsheetml.sheet"}

UnsupportedFiles ==
  {File(sh.name, sh.type, sh.fault, d) :
     sh \in {x \in UniverseOf(pool).shells : NeitherCsvNorExcel(x)},
     d \in DataOf(UniverseOf(pool))}

\* A decode of SalesAnalyzer fails: the CSV decoder reports an error, the
\* workbook cannot be parsed, or the file cannot be read.
DecodeFails ==
  \E i \in 1..Len(pending) :
    \/ PapaError(i)
    \/ pending[i].file.fault = "parse" /\ ReaderOnload(i)
    \/ ReaderOnerror(i)

\* The same in App.
AppDecodeFails ==
  \E i \in 1..Len(appPending) :
    \/ AppPapaError(i)
    \/ appPending[i].file.fault = "parse" /\ AppReaderOnload(i)
    \/ AppReaderFails(i)

UnsupportedUpload ==
  component = "SalesAnalyzer" /\ budget > 0 /\ \E file \in UnsupportedFiles : ProcessFile(file)

AppUnsupportedUpload ==
  component = "App" /\ budget > 0 /\ \E file \in UnsupportedFiles : AppProcessFile(file)

SalesAnalyzerFailures ==
  [][/\ DecodeFails =>
          /\ error' # ""
          /\ salesData' = salesData /\ lastCall' = lastCall
          /\ OneUpload => salesData' = Null
     /\ UnsupportedUpload =>
          /\ error' = translations(language).errorFileType
          /\ salesData' = Null /\ lastCall' = Null
          /\ pending' = pending]_vars

AppFailures ==
  [][/\ AppDecodeFails =>
          /\ appError' # ""
          /\ appSalesData' = appSalesData /\ lastCall' = lastCall
          /\ OneUpload => appSalesData' = Null
     /\ AppUnsupportedUpload =>
          /\ appError' = translations(language).errorFileType
          /\ appSalesData' = Null /\ lastCall' = Null
          /\ appPending' = appPending]_vars

\* C19: in either component, an upload whose decoding fails ends with an
\* error message that is not empty and with no result made of it (salesData
\* stays null), and an upload whose extension and content type are neither
\* CSV's nor Excel's ends with the message for unsupported files, no decode
\* started and calculateTotals not called.
C19_FailuresReported == SalesAnalyzerFailures /\ AppFailures

----------------------------------------------------------------------------
(* C20 *)

\* The date strings of the non-skipped rows that carry one.
DateStrings(data) ==
  {dateCreatedOf(data[i]) : i \in KeptRows(data)} \ {""}

\* C20: the daily series has exactly one entry for each distinct date string
\* of the non-skipped dated rows, under that string as it stands: no two
\* entries have the same date string, and two strings of one calendar day
\* have an entry each.
C20_OneEntryPerDateString ==
  Loaded =>
    LET dd == salesData.dailyData
    IN  /\ {dd[k].date : k \in 1..Len(dd)} = DateStrings(lastCall.data)
        /\ Len(dd) = Cardinality(DateStrings(lastCall.data))

\* Three rows, two of them of the same date string and the third of the same
\* day written otherwise: two entries.
C20_Witness ==
  /\ Loaded
  /\ Cardinality(KeptRows(lastCall.data)) = 3
  /\ Len(salesData.dailyData) = 2
  /\ DateStrings(lastCall.data) = {"1/5/2024", "01/05/2024"}

----------------------------------------------------------------------------
(* C21 *)

Balanced(day) == day.total = day.retail + day.club

\* C21: every entry of the daily series has total = retail + club, and so
\* has every entry of every filtered sub-sequence of it.
C21_TotalIsRetailPlusClub ==
  Loaded =>
    LET dd == salesData.dailyData
    IN  /\ \A k \in 1..Len(dd) : Balanced(dd[k])
        /\ \A lang \in Languages :
             \A m \in Filters(dd, lang) :
               LET f == getFilteredDailyData(dd, m, lang, tz)
               IN  \A k \in 1..Len(f) : Balanced(f[k])

\* A day with both a retail and a club amount, shown under the selected
\* month.
C21_Witness ==
  /\ Loaded
  /\ selectedMonth # "ALL"
  /\ \E k \in 1..Len(getFilteredDailyData(salesData.dailyData, selectedMonth, language, tz)) :
       LET day == getFilteredDailyData(salesData.dailyData, selectedMonth, language, tz)[k]
       IN  day.retail > 0 /\ day.club > 0 /\ day.total > day.retail

----------------------------------------------------------------------------
(* C22 *)

\* The label the aggregation gave the k-th entry of the series.
LabelOf(k) == getMonthFromDate(salesData.dailyData[k].date, lastCall.lang, tz)

\* C22: in every state availableMonths holds a month label at most once;
\* buckets of the same month of different years have one label between
\* them, and the filter of that label returns them together.
C22_LabelsOnce ==
  /\ \A a, b \in 1..Len(availableMonths) : a # b => availableMonths[a] # availableMonths[b]
  /\ Loaded =>
       \A j, k \in 1..Len(salesData.dailyData) :
         (LabelOf(j) # "" /\ LabelOf(j) = LabelOf(k)) =>
           LET f == getFilteredDailyData(salesData.dailyData, LabelOf(j), lastCall.lang, tz)
           IN  /\ \E n \in 1..Len(f) : f[n] = salesData.dailyData[j]
               /\ \E n \in 1..Len(f) : f[n] = salesData.dailyData[k]

\* January 2023 and January 2024 under the one label January, beside another
\* month.
C22_Witness ==
  /\ Loaded
  /\ Len(availableMonths) = 2
  /\ \E j, k \in 1..Len(salesData.dailyData) :
       /\ salesData.dailyData[j].date = "01/15/2023"
       /\ salesData.dailyData[k].date = "01/05/2024"
       /\ LabelOf(j) = LabelOf(k)
       /\ Len(getFilteredDailyData(salesData.dailyData, LabelOf(j), lastCall.lang, tz)) = 2

----------------------------------------------------------------------------
(* C23 *)

\* What the i-th pending decode hands to calculateTotals.
RowsOf(i) == pending[i].file.data

----------------------------------------------------------------------------
(* C24 *)

\* The decodes in flight that will hand their rows to calculateTotals.
Decoding == {i \in 1..Len(pending) : pending[i].file.fault = "none"}

\* C24: when no row of the sequence qualifies (no rows at all, or every row
\* skipped or excluded), calculateTotals is defined on it, with one outcome,
\* and the result it leaves is retailTotal = 0, clubTotal = 0, an empty daily
\* series, an empty availableMonths and selectedMonth = 'ALL'.
C24_NothingQualifies ==
  /\ \A i \in Decoding :
       KeptRows(RowsOf(i)) = {} =>
         calculateTotals(RowsOf(i), pending[i].file.name, pending[i].lang, tz)
           = {[salesData |-> [retailTotal |-> 0, clubTotal |-> 0,
                              fileName |-> pending[i].file.name,
                              dailyData |-> <<>>],
               availableMonths |-> <<>>,
               selectedMonth |-> "ALL"]}
  /\ (Loaded /\ KeptRows(lastCall.data) = {}) =>
       /\ salesData.retailTotal = 0
       /\ salesData.clubTotal = 0
       /\ salesData.dailyData = <<>>
       /\ availableMonths = <<>>
       /\ selectedMonth = "ALL"

\* Three rows, none of which qualifies: the excluded customer in another
\* case and with white space around among them.
C24_Witness ==
  /\ Loaded
  /\ Len(lastCall.data) = 3
  /\ KeptRows(lastCall.data) = {}
  /\ \E i \in 1..3 : customerNameOf(lastCall.data[i]) = "  ASHLEY REGIS  "
  /\ salesData.retailTotal = 0
  /\ salesData.dailyData = <<>>


----------------------------------------------------------------------------
(* C25 *)

\* C25: once every decode has completed, whatever the order in which the
\* decoders called back, the result on display is that of the upload started
\* last: the callback of an earlier upload has not overwritten it.
C25_LatestUploadShown ==
  (Loaded /\ pending = <<>>) => lastCall.upload = Started


----------------------------------------------------------------------------
(* C26 *)

\* C26: in every reachable state, two uploads in flight included, an error
\* message on display means that no result is loaded: the message and a
\* result are never displayed together.
C26_ErrorMeansNoResult ==
  (component = "SalesAnalyzer" /\ error # "") => salesData = Null


----------------------------------------------------------------------------
(* C27 *)

\* The view of the daily series under the month selected, as the render
\* computes it.
View == getFilteredDailyData(salesData.dailyData, selectedMonth, language, tz)

\* C27: whenever a result is loaded and a month label is selected, after any
\* uploads, language toggles and month selections, the filtered daily series
\* is not empty and holds exactly the entries dated in the month selected.
C27_SelectedMonthShown ==
  (Loaded /\ selectedMonth # "ALL") =>
    /\ View # <<>>
    /\ Entries(View) =
         {salesData.dailyData[k] : k \in {j \in 1..Len(salesData.dailyData) :
                                            LabelOf(j) = selectedMonth}}


----------------------------------------------------------------------------
(* C28 *)

\* The filter values within the user's reach: the one in force, and what the
\* buttons of the month selector set (ALL is rendered with several months,
\* a month button is disabled when it is the only one).
Selectable ==
  {selectedMonth}
    \cup (IF Len(availableMonths) > 1
          THEN {"ALL"} \cup {availableMonths[i] : i \in 1..Len(availableMonths)}
          ELSE {})

\* C28: with the result of a completed upload on display, in the language it
\* was computed in, every entry of the daily series, the entries whose date
\* gives no month label included, is in the filtered view of some filter
\* value the user can select.
C28_EveryEntrySelectable ==
  (Loaded /\ language = lastCall.lang) =>
    \A k \in 1..Len(salesData.dailyData) :
      \E m \in Selectable :
        salesData.dailyData[k]
          \in Entries(getFilteredDailyData(salesData.dailyData, m, language, tz))


----------------------------------------------------------------------------
(* C29 *)

\* The uploads of these runs: every kind of file, with one row or none.
UploadInit ==
  /\ component \in {"SalesAnalyzer", "App"}
  /\ pool = "uploads"
  /\ budget = UniverseOf(pool).uploads
  /\ tz \in UniverseOf(pool).zones
  /\ language \in Languages
  /\ salesData = Null
  /\ error = ""
  /\ selectedMonth = "ALL"
  /\ availableMonths = <<>>
  /\ pending = <<>>
  /\ lastCall = Null
  /\ appSalesData = Null
  /\ appError = ""
  /\ appPending = <<>>
  /\ engineSort = {}
  /\ probe = Null
  /\ answer = Null

UploadNext ==
  \/ handleFileInput
  \/ \E i \in 1..Len(pending) : PapaComplete(i)
  \/ \E i \in 1..Len(pending) : PapaError(i)
  \/ \E i \in 1..Len(pending) : ReaderOnload(i)
  \/ \E i \in 1..Len(pending) : ReaderOnerror(i)
  \/ toggleLanguage
  \/ AppHandleFileInput
  \/ \E i \in 1..Len(appPending) : AppPapaComplete(i)
  \/ \E i \in 1..Len(appPending) : AppPapaError(i)
  \/ \E i \in 1..Len(appPending) : AppReaderOnload(i)
  \/ \E i \in 1..Len(appPending) : AppReaderFails(i)

\* A decode is in flight whose callback hands rows to calculateTotals: the
\* complete callback of Papa.parse, the onload of a FileReader that could
\* read the file (XLSX.read may still throw in it).
Decoded(e) ==
  \/ e.reader = "papa" /\ e.file.fault = "none"
  \/ e.reader = "xlsx" /\ e.file.fault # "read"

\* The decoders call back: Papa.parse and the FileReader queue the callback
\* they were given as a task of the event loop, which runs every task queued.
\* For the callbacks that set an error message this is weak fairness as it
\* stands; for those that may run calculateTotals it is weak fairness with
\* ENABLED written out as the guard of the callback, Decoded.
Callbacks ==
  /\ WF_vars(\E i \in 1..Len(pending) : PapaError(i) \/ ReaderOnerror(i))
  /\ WF_vars(\E i \in 1..Len(appPending) : AppPapaError(i))
  /\ \/ []<>(\A i \in 1..Len(pending) : ~Decoded(pending[i]))
     \/ []<><<\E i \in 1..Len(pending) : PapaComplete(i) \/ ReaderOnload(i)>>_vars
  /\ \/ []<>(\A i \in 1..Len(appPending) : ~Decoded(appPending[i]))
     \/ []<><<\E i \in 1..Len(appPending) : AppPapaComplete(i) \/ AppReaderOnload(i)>>_vars

UploadSpec == UploadInit /\ [][UploadNext]_vars /\ Callbacks


\* Upload number n has a decode in flight.
InFlight(n) == \E i \in 1..Len(pending) : pending[i].upload = n

AppInFlight(n) == \E i \in 1..Len(appPending) : appPending[i].upload = n

\* App.tsx gives the FileReader no onerror: when the read fails the decoder
\* has no callback of the upload to invoke.
AppCallsBack(e) == ~(e.reader = "xlsx" /\ e.file.fault = "read")

\* The message the callbacks of the decode e set when it fails.
FailureOf(e) ==
  IF e.reader = "papa" THEN translations(e.lang).errorCsv \o ": " \o ErrMessage
  ELSE translations(e.lang).errorExcel

\* The step is a call of processFile.
Starts == budget' = budget - 1

\* The step ends the decode pending[i] with calculateTotals setting a result.
EndsInResult(i) ==
  /\ salesData' # Null
  /\ Result' \in calculateTotals(RowsOf(i), pending[i].file.name, pending[i].lang, tz)
  /\ lastCall'.upload = pending[i].upload
  /\ error' = error

\* The step ends the decode pending[i] with its error message set.
EndsInError(i) ==
  /\ error' = FailureOf(pending[i])
  /\ UNCHANGED <<salesData, selectedMonth, availableMonths, lastCall>>

AppEndsInResult(i) ==
  /\ appSalesData' = AppCalculateTotals(appPending[i].file.data, appPending[i].file.name)
  /\ lastCall'.upload = appPending[i].upload
  /\ appError' = appError

AppEndsInError(i) ==
  /\ appError' = FailureOf(appPending[i])
  /\ UNCHANGED <<appSalesData, lastCall>>

\* C29: every upload started by processFile ends, provided its decoder
\* invokes one of its callbacks, and ends in exactly one of two ways:
\* calculateTotals runs and sets a result, or an error message is set (at
\* once for a file of no supported type); and starting an upload first
\* clears the error, the result, the selected month and availableMonths.
C29_UploadEnds ==
  /\ \A n \in 1..MaxUploads : InFlight(n) ~> ~InFlight(n)
  /\ \A n \in 1..MaxUploads :
       (\E i \in 1..Len(appPending) :
          appPending[i].upload = n /\ AppCallsBack(appPending[i])) ~> ~AppInFlight(n)
  /\ [][\A i \in 1..Len(pending) :
          pending' = RemoveAt(pending, i) =>
            \/ EndsInResult(i) /\ ~EndsInError(i)
            \/ EndsInError(i) /\ ~EndsInResult(i)]_vars
  /\ [][\A i \in 1..Len(appPending) :
          (appPending' = RemoveAt(appPending, i) /\ AppCallsBack(appPending[i])) =>
            \/ AppEndsInResult(i) /\ ~AppEndsInError(i)
            \/ AppEndsInError(i) /\ ~AppEndsInResult(i)]_vars
  /\ [][(Starts /\ component = "SalesAnalyzer") =>
          /\ salesData' = Null
          /\ selectedMonth' = "ALL"
          /\ availableMonths' = <<>>
          /\ IF Len(pending') > Len(pending) THEN error' = ""
             ELSE error' = translations(language).errorFileType]_vars
  /\ [][(Starts /\ component = "App") =>
          /\ appSalesData' = Null
          /\ IF Len(appPending') > Len(appPending) THEN appError' = ""
             ELSE appError' = translations(language).errorFileType]_vars

\* Two uploads were started over a result and have both ended, the first in
\* an error message and the second in a result.
C29_Witness ==
  /\ budget = 0
  /\ pending = <<>>
  /\ Loaded /\ lastCall.upload = MaxUploads
  /\ error = translations(lastCall.lang).errorExcel

====
